---------------------------- MODULE Spec2Model ----------------------------
(***************************************************************************)
(* Model of Corrector.correct() (src/core/corrector.py) of EssayCorrector:  *)
(* the segment-parallel correction pipeline.                                *)
(*                                                                          *)
(* Text is a sequence of tokens.  A token is one character of the source    *)
(* text ("[", "]", "{", "}", ",", ":", " ", a letter, a digit), except      *)
(* that four whole string literals are single tokens:                       *)
(*    "O"  is the 11 characters  "theorigin"  (quotes included)             *)
(*    "C"  is the 11 characters  "corrected"  (quotes included)             *)
(*    "A"  is the 3 characters  "a"  and  "B"  the 3 characters  "b"        *)
(*    "q"  is one double quote (a string literal written out in full is     *)
(*         q, its characters, q)                                            *)
(* The Chinese literals of the code are single tokens written in pinyin:    *)
(*    "CHULI" is 处理, "CUOWU: " is 错误: , "SHIBAI: " is 失败: ,           *)
(*    "QINGQIUSHIBAI" is 请求失败                                           *)
(* Python indexes segments from 0; the model indexes them from 1.           *)
(*                                                                          *)
(* Spec is one call of correct() over up to MaxSegs segments; LiveSpec is   *)
(* Spec with the fairness of the threads; ParserSpec is the run of a        *)
(* one-segment document for each response text of RawTexts; CallbackSpec   *)
(* is Spec with a progress callback that may raise.                         *)
(*                                                                          *)
(* SegmenterSpec is DocumentProcessor.combine_paragraphs and                *)
(* preprocess_text (src/core/data_processor.py) over generated documents.   *)
(* There every token is exactly one character: "^A" is U+0001, and          *)
(* "JUHAO", "DOUHAO", "GANTANHAO", "WENHAO", "FENHAO", "MAOHAO" are the     *)
(* full-width marks 。 ， ！ ？ ； ：                                        *)
(*                                                                          *)
(* TaskSpec is the life of an upload in the web application (src/app.py):   *)
(* the row of the task, the events sent to its room and its temporary       *)
(* file.  Calls into the database session, Socket.IO and os.remove are      *)
(* taken to return normally.                                                *)
(***************************************************************************)
EXTENDS Integers, Sequences, FiniteSets, TLC

\* ------------------------------------------------------------------------
\* Bounds
\* ------------------------------------------------------------------------
MaxSegs == 2
MaxWorkers == 2
\* most bracketed candidates in one generated response
MaxCandidates == 3
\* most paragraphs in one generated document
MaxParagraphs == 3
\* most uploads
MaxTasks == 2
\* the character budget of a segment (config.MAX_CHARS_PER_PARAGRAPH, read
\* from the environment, 3000 when it is not set)
MAX_CHARS_PER_PARAGRAPH == 6

\* ------------------------------------------------------------------------
\* Text helpers (Python str operations)
\* ------------------------------------------------------------------------
Whitespace == {" "}

\* start of s with leading whitespace removed
RECURSIVE LStrip(_)
LStrip(s) ==
    IF s # <<>> /\ Head(s) \in Whitespace THEN LStrip(Tail(s)) ELSE s

RECURSIVE RStrip(_)
RStrip(s) ==
    IF s # <<>> /\ s[Len(s)] \in Whitespace
    THEN RStrip(SubSeq(s, 1, Len(s) - 1)) ELSE s

\* str.strip()
Strip(s) == RStrip(LStrip(s))

\* str.startswith / str.endswith for a one-token prefix or suffix
StartsWith(s, tok) == s # <<>> /\ s[1] = tok
EndsWith(s, tok) == s # <<>> /\ s[Len(s)] = tok

\* str.find(tok, from): least index >= from holding tok, 0 when there is none
\* (Python's -1)
FindFrom(s, tok, from) ==
    LET hits == {i \in from..Len(s) : s[i] = tok}
    IN  IF hits = {} THEN 0 ELSE CHOOSE i \in hits : \A j \in hits : i <= j

\* str.rfind(tok): greatest index holding tok, 0 when there is none
RFind(s, tok) ==
    LET hits == {i \in 1..Len(s) : s[i] = tok}
    IN  IF hits = {} THEN 0 ELSE CHOOSE i \in hits : \A j \in hits : i >= j

\* re.findall(open [\s\S]*? close, s): the leftmost non-overlapping matches,
\* each from an opening token to the nearest closing token after it
RECURSIVE FindAllFrom(_, _, _, _)

\* the match from the opening token at i to the closing token at j, then on
MatchTo(s, open, close, i, j) ==
    IF j = 0 THEN <<>>
    ELSE <<SubSeq(s, i, j)>> \o FindAllFrom(s, open, close, j + 1)

MatchFrom(s, open, close, i) ==
    IF i = 0 THEN <<>>
    ELSE MatchTo(s, open, close, i, FindFrom(s, close, i + 1))

FindAllFrom(s, open, close, from) ==
    MatchFrom(s, open, close, FindFrom(s, open, from))

FindAll(s, open, close) == FindAllFrom(s, open, close, 1)

\* ------------------------------------------------------------------------
\* json.loads on token text
\* ------------------------------------------------------------------------
\* JSON values: [t |-> "str", s], [t |-> "num", s], [t |-> "arr", items],
\* [t |-> "obj", pairs] with pairs a sequence of [k, v] in source order
NoValue == [t |-> "none"]
ParseFail == [ok |-> FALSE, v |-> NoValue, next |-> 0]
ParseOk(v, next) == [ok |-> TRUE, v |-> v, next |-> next]

\* the string literals that are one token, with the string each denotes
Literal == [O |-> <<"theorigin">>, C |-> <<"corrected">>,
            A |-> <<"a">>, B |-> <<"b">>]
\* the tokens that hold a double quote
StrEnd == {"q"} \cup DOMAIN Literal
Digits == {"1"}

RECURSIVE SkipWs(_, _)
SkipWs(s, i) ==
    IF i <= Len(s) /\ s[i] \in Whitespace THEN SkipWs(s, i + 1) ELSE i

\* a string literal starting at s[i]
ParseString(s, i) ==
    IF s[i] \in DOMAIN Literal
    THEN ParseOk([t |-> "str", s |-> Literal[s[i]]], i + 1)
    ELSE LET ends == {j \in (i + 1)..Len(s) : s[j] \in StrEnd}
             j == CHOOSE k \in ends : \A m \in ends : k <= m
         IN  IF ends = {} THEN ParseFail
             ELSE IF s[j] # "q" THEN ParseFail
             ELSE ParseOk([t |-> "str", s |-> SubSeq(s, i + 1, j - 1)], j + 1)

RECURSIVE NumEnd(_, _)
NumEnd(s, i) == IF i <= Len(s) /\ s[i] \in Digits THEN NumEnd(s, i + 1) ELSE i

RECURSIVE ParseValue(_, _)
RECURSIVE ParseElems(_, _, _)
RECURSIVE ParsePairs(_, _, _)

\* after the element r of an array: "," and the next element, or "]" at k
AfterElem(s, r, k, acc) ==
    IF ~r.ok \/ k > Len(s) THEN ParseFail
    ELSE IF s[k] = "," THEN ParseElems(s, SkipWs(s, k + 1), Append(acc, r.v))
    ELSE IF s[k] = "]"
         THEN ParseOk([t |-> "arr", items |-> Append(acc, r.v)], k + 1)
    ELSE ParseFail

ElemParsed(s, r, acc) == AfterElem(s, r, SkipWs(s, r.next), acc)

\* the elements of an array after "[": s[i] starts an element
ParseElems(s, i, acc) == ElemParsed(s, ParseValue(s, i), acc)

\* after the member key: r of an object: "," and the next member, or "}" at k
AfterPair(s, key, r, k, acc) ==
    IF ~r.ok \/ k > Len(s) THEN ParseFail
    ELSE IF s[k] = ","
         THEN ParsePairs(s, SkipWs(s, k + 1),
                         Append(acc, [k |-> key.v.s, v |-> r.v]))
    ELSE IF s[k] = "}"
         THEN ParseOk([t |-> "obj",
                       pairs |-> Append(acc, [k |-> key.v.s, v |-> r.v])],
                      k + 1)
    ELSE ParseFail

PairParsed(s, key, r, acc) == AfterPair(s, key, r, SkipWs(s, r.next), acc)

\* after the key of a member: ":" at c and the value
AfterKey(s, key, c, acc) ==
    IF key.ok /\ c <= Len(s) /\ s[c] = ":"
    THEN PairParsed(s, key, ParseValue(s, SkipWs(s, c + 1)), acc)
    ELSE ParseFail

KeyParsed(s, key, acc) ==
    IF key.ok THEN AfterKey(s, key, SkipWs(s, key.next), acc) ELSE ParseFail

\* the members of an object after "{": s[i] starts a key
ParsePairs(s, i, acc) ==
    IF i > Len(s) \/ s[i] \notin StrEnd THEN ParseFail
    ELSE KeyParsed(s, ParseString(s, i), acc)

\* an array whose first token after "[" is s[j]
ArrayFrom(s, j) ==
    IF j <= Len(s) /\ s[j] = "]"
    THEN ParseOk([t |-> "arr", items |-> <<>>], j + 1)
    ELSE ParseElems(s, j, <<>>)

\* an object whose first token after "{" is s[j]
ObjectFrom(s, j) ==
    IF j <= Len(s) /\ s[j] = "}"
    THEN ParseOk([t |-> "obj", pairs |-> <<>>], j + 1)
    ELSE ParsePairs(s, j, <<>>)

\* a number from s[i] to s[e - 1]
NumberTo(s, i, e) == ParseOk([t |-> "num", s |-> SubSeq(s, i, e - 1)], e)

ParseValue(s, i) ==
    IF i > Len(s) THEN ParseFail
    ELSE IF s[i] = "[" THEN ArrayFrom(s, SkipWs(s, i + 1))
    ELSE IF s[i] = "{" THEN ObjectFrom(s, SkipWs(s, i + 1))
    ELSE IF s[i] \in StrEnd THEN ParseString(s, i)
    ELSE IF s[i] \in Digits THEN NumberTo(s, i, NumEnd(s, i))
    ELSE ParseFail

\* the whole text must be one value
WholeValue(s, r) == IF r.ok /\ SkipWs(s, r.next) > Len(s) THEN r ELSE ParseFail

\* json.loads(s): ok = FALSE is json.JSONDecodeError (also on trailing data)
JsonLoads(s) == WholeValue(s, ParseValue(s, SkipWs(s, 1)))

\* isinstance(item, dict) and 'theorigin' in item and 'corrected' in item
HasKey(v, key) == \E p \in 1..Len(v.pairs) : v.pairs[p].k = <<key>>
IsRecordItem(v) ==
    v.t = "obj" /\ HasKey(v, "theorigin") /\ HasKey(v, "corrected")


\* ------------------------------------------------------------------------
\* AISolver.get_response: what one call can give back
\* ------------------------------------------------------------------------
Returned(text) == [raised |-> FALSE, text |-> text]
Raised(msg) == [raised |-> TRUE, text |-> msg]

\* {"theorigin":"a","corrected":"b"} and {"theorigin":"b","corrected":"a"}
RecA == <<"{", "O", ":", "A", ",", "C", ":", "B", "}">>
RecB == <<"{", "O", ":", "B", ",", "C", ":", "A", "}">>
\* {"theorigin":"a"}
RecNoCorrected == <<"{", "O", ":", "A", "}">>
\* {"corrected":"b"}
RecNoOriginal == <<"{", "C", ":", "B", "}">>
\* {"theorigin":1,"corrected":""}
RecNotStrings == <<"{", "O", ":", "1", ",", "C", ":", "q", "q", "}">>

\* requests.RequestException (network) and the ValueError for a non-200
\* status, as get_response raises them
ClientFailures ==
    { Raised(<<"ConnectionError">>),
      Raised(<<"QINGQIUSHIBAI", "500">>) }

\* contents of a 200 reply: no correction needed, an array wrapped in prose,
\* a bare array of two records, an array with an incomplete record, an array
\* of a record whose original is a number and whose correction is the empty
\* string, a single record outside any array, prose without any bracket
Contents ==
    { <<"[", "]">>,
      <<"a", " ", "[">> \o RecA \o <<"]", " ", "b">>,
      <<"[">> \o RecB \o <<",", " ">> \o RecA \o <<"]">>,
      <<"[">> \o RecB \o <<",">> \o RecNoCorrected \o <<"]">>,
      <<"[">> \o RecNotStrings \o <<"]">>,
      RecA,
      <<"a", " ", "b">> }

Replies == ClientFailures \cup {Returned(c) : c \in Contents}

\* a get_response that posts a second time
RequestsPerCallWithRetry == 1 + 1

\* the requests.post calls of one get_response invocation: one, outside any
\* loop, whose exception or non-200 status is raised to the caller
RequestsPerCall == 1

\* ------------------------------------------------------------------------
\* process_paragraph: from the reply of get_response to the string it returns
\* ------------------------------------------------------------------------
ErrorPrefix == <<"CHULI", "CUOWU: ">>

\* lines 164-165: a non-empty list of dicts that all have both keys
IsValidJson(test_json) ==
    /\ test_json.ok
    /\ test_json.v.t = "arr"
    /\ Len(test_json.v.items) > 0
    /\ \A k \in 1..Len(test_json.v.items) : IsRecordItem(test_json.v.items[k])

\* the loop going on after a valid match: the last one wins
RECURSIVE LastValid(_)
LastValid(json_matches) ==
    IF json_matches = <<>> THEN <<>>
    ELSE IF LastValid(Tail(json_matches)) # <<>>
         THEN LastValid(Tail(json_matches))
    ELSE IF IsValidJson(JsonLoads(Head(json_matches))) THEN Head(json_matches)
    ELSE <<>>

\* the for loop over json_matches: the first match that is valid JSON of
\* that shape, <<>> when there is none (valid_json = None)
RECURSIVE FirstValid(_)
FirstValid(json_matches) ==
    IF json_matches = <<>> THEN <<>>
    ELSE IF IsValidJson(JsonLoads(Head(json_matches))) THEN Head(json_matches)
    ELSE FirstValid(Tail(json_matches))

Extracted(text) == [ok |-> TRUE, text |-> text]
\* the ValueError raised inside the inner try block; text is its message:
\* what went wrong, then the content it quotes (content[:150] in the code;
\* the texts of the model are shorter than that)
ExtractFailed(reason, content) == [ok |-> FALSE, text |-> <<reason>> \o content]
\* lines 153-155: 无法从AI响应中提取JSON格式数据
NoJsonFound == "no JSON data in: "
\* line 190: 无法解析AI返回内容为有效JSON
NotValidJson == "not valid JSON: "

\* lines 148-151: the array-like substrings, or else the object-like ones
OrObjects(arrays, corrected_content) ==
    IF arrays # <<>> THEN arrays ELSE FindAll(corrected_content, "{", "}")

JsonMatches(corrected_content) ==
    OrObjects(FindAll(corrected_content, "[", "]"), corrected_content)

\* lines 185-187: the slice is assigned to corrected_content, then parsed
SliceParsed(slice) ==
    IF JsonLoads(slice).ok THEN Extracted(slice)
    ELSE ExtractFailed(NotValidJson, slice)

\* lines 182-190: the text from the first "[" to the last "]", if there is
\* one and it parses
SalvageSlice(corrected_content, cleaned_content, start_idx, end_idx) ==
    IF start_idx # 0 /\ end_idx # 0 /\ start_idx < end_idx
    THEN SliceParsed(SubSeq(cleaned_content, start_idx, end_idx))
    ELSE ExtractFailed(NotValidJson, corrected_content)

\* the slice cut at the first "]" instead of the last
SalvageToFirstClose(corrected_content, cleaned_content) ==
    SalvageSlice(corrected_content, cleaned_content,
                 FindFrom(cleaned_content, "[", 1),
                 FindFrom(cleaned_content, "]", 1))

\* lines 177-190
Salvage(corrected_content, cleaned_content) ==
    SalvageSlice(corrected_content, cleaned_content,
                 FindFrom(cleaned_content, "[", 1),
                 RFind(cleaned_content, "]"))

\* without the salvage pass of lines 174-190
ValidOrFail(valid_json, corrected_content) ==
    IF valid_json # <<>> THEN Extracted(valid_json)
    ELSE ExtractFailed(NotValidJson, corrected_content)

\* lines 171-190
ValidOrSalvage(valid_json, corrected_content) ==
    IF valid_json # <<>> THEN Extracted(valid_json)
    ELSE Salvage(corrected_content, Strip(corrected_content))

\* going on with the raw content when nothing bracketed was found
FromMatchesOrRaw(json_matches, corrected_content) ==
    IF json_matches = <<>> THEN Extracted(corrected_content)
    ELSE ValidOrSalvage(FirstValid(json_matches), corrected_content)

\* lines 153-190
FromMatches(json_matches, corrected_content) ==
    IF json_matches = <<>> THEN ExtractFailed(NoJsonFound, corrected_content)
    ELSE ValidOrSalvage(FirstValid(json_matches), corrected_content)

\* the inner try block: [ok, text]; ok = FALSE is the ValueError raised
\* from it
ExtractJson(corrected_content) ==
    FromMatches(JsonMatches(corrected_content), corrected_content)

\* lines 191-198 after the inner try block
AfterExtract(ex) ==
    IF ~ex.ok THEN ErrorPrefix \o <<"CHULI", "AI response failed: ">> \o ex.text
    ELSE IF StartsWith(ex.text, "QINGQIUSHIBAI")
         THEN ErrorPrefix \o <<"AI service request failed: ">> \o ex.text
    ELSE ex.text

\* process_paragraph returning str(e) without the failure prefix
process_paragraph_no_prefix(reply) ==
    IF reply.raised THEN reply.text ELSE AfterExtract(ExtractJson(reply.text))

process_paragraph(reply) ==
    IF reply.raised THEN ErrorPrefix \o reply.text
    ELSE AfterExtract(ExtractJson(reply.text))

\* ------------------------------------------------------------------------
\* the merge of one outcome slot (body of the loop over corrected_paragraphs)
\* ------------------------------------------------------------------------
None == [isNone |-> TRUE, text |-> <<>>]
Str(text) == [isNone |-> FALSE, text |-> text]

\* one item without both fields discards the whole array
ValidItemsAllOrNothing(items) ==
    IF \A k \in 1..Len(items) : IsRecordItem(items[k]) THEN items ELSE <<>>

\* valid_items
ValidItems(items) == SelectSeq(items, IsRecordItem)

\* lines 275-281: "[" put in front and "]" put behind when missing
Bracketed(stripped) ==
    (IF StartsWith(stripped, "[") THEN <<>> ELSE <<"[">>)
    \o stripped
    \o (IF EndsWith(stripped, "]") THEN <<>> ELSE <<"]">>)

Merged(log, items) == [log |-> log, items |-> items]

\* append of the first item in place of extend
MergeFirstItem(valid_items) ==
    IF valid_items = <<>> THEN Merged("no_valid_items", <<>>)
    ELSE Merged("extended", <<valid_items[1]>>)

\* lines 296-306
MergeItems(valid_items) ==
    IF valid_items = <<>> THEN Merged("no_valid_items", <<>>)
    ELSE Merged("extended", valid_items)

\* lines 284-306
MergeParsed(parsed) ==
    IF ~parsed.ok THEN Merged("json_error", <<>>)
    ELSE IF parsed.v.t = "arr" THEN MergeItems(ValidItems(parsed.v.items))
    ELSE IF parsed.v.t = "obj" THEN MergeItems(ValidItems(<<parsed.v>>))
    ELSE Merged("other_error", <<>>)

\* a merge without the test of line 264
MergeOneNoSkip(paragraph) ==
    MergeParsed(JsonLoads(Bracketed(Strip(paragraph.text))))

\* [log, items]: what the iteration prints and what it appends
MergeOne(paragraph) ==
    IF paragraph.isNone \/ StartsWith(paragraph.text, "CHULI")
    THEN Merged("skipped", <<>>)
    ELSE MergeParsed(JsonLoads(Bracketed(Strip(paragraph.text))))

\* the share of the paragraphs still to do instead of the share done
ProgressPercentRemaining(completed, total) ==
    (10000 * (total - completed + 1)) \div total

\* round((completed_count / total_paragraphs) * 100, 2) in hundredths of a
\* percent, rounding half to even
ProgressPercent(completed, total) ==
    LET q == (10000 * completed) \div total
        r == (10000 * completed) % total
    IN  IF 2 * r > total THEN q + 1
        ELSE IF 2 * r < total THEN q
        ELSE IF q % 2 = 0 THEN q ELSE q + 1

\* ------------------------------------------------------------------------
\* State of one Corrector and of one call of correct()
\* ------------------------------------------------------------------------
VARIABLES
    pc,                   \* position of the calling thread in correct()
    progress_callback,    \* self.progress_callback is set (not None)
    task_id,              \* argument of correct()
    max_workers,          \* argument of correct()
    paragraphs,           \* what dataProcessor.process() returned
    total_paragraphs,
    future,               \* per index: state of the submitted future
    future_result,        \* per index: what process_paragraph returned
    reply,                \* per index: what get_response gave (history)
    calls,                \* per index: number of get_response invocations
    requests,             \* per index: number of requests.post calls made
    corrected_paragraphs, \* the pre-allocated outcome slots
    completed_count,
    events,               \* the calls of progress_callback, in order
    merge_index,          \* i of the merge loop
    merge_log,            \* per merged index: the branch the merge took
    all_corrections,
    outcome,              \* how correct() ended
    reordered             \* some future was collected before a lower index

\* State of one call of DocumentProcessor.process()
VARIABLES
    segmenter_pc,         \* position in process()
    document,             \* what load_document() returned
    combined_paragraphs,  \* what combine_paragraphs returned
    cleaned_paragraphs,   \* preprocess_text: the list after its first loop
    unique_paragraphs     \* preprocess_text: the list it returns

segmenter_vars == <<segmenter_pc, document, combined_paragraphs,
                    cleaned_paragraphs, unique_paragraphs>>

\* State of the web application (src/app.py): per uploaded task
VARIABLES
    task_status,          \* Task.status of the row, "none" without a row
    status_writes,        \* the values Task.status was given, in order
    socket_events,        \* the Socket.IO events emitted for the task
    temp_file,            \* the uploaded file exists in TEMP_FOLDER
    thread_pc,            \* position of the task's thread in process_task
    thread_outcome        \* how the try block of process_task went

web_vars == <<task_status, status_writes, socket_events, temp_file,
              thread_pc, thread_outcome>>


vars == <<pc, progress_callback, task_id, max_workers, paragraphs,
          total_paragraphs, future, future_result, reply, calls, requests,
          corrected_paragraphs, completed_count, events, merge_index,
          merge_log, all_corrections, outcome, reordered, segmenter_vars,
          web_vars>>

TaskKeys == 1..MaxTasks

\* nothing uploaded yet
NoUploads ==
    /\ task_status = [t \in TaskKeys |-> "none"]
    /\ status_writes = [t \in TaskKeys |-> <<>>]
    /\ socket_events = [t \in TaskKeys |-> <<>>]
    /\ temp_file = [t \in TaskKeys |-> FALSE]
    /\ thread_pc = [t \in TaskKeys |-> "none"]
    /\ thread_outcome = [t \in TaskKeys |-> "none"]

\* no call of process() under way
SegmenterIdle ==
    /\ segmenter_pc = "idle"
    /\ document = <<>>
    /\ combined_paragraphs = <<>>
    /\ cleaned_paragraphs = <<>>
    /\ unique_paragraphs = <<>>

NoneId == "<None>"
TaskIds == {NoneId, "", "task-1"}
\* truth value of task_id in "if self.progress_callback and task_id"
Truthy(id) == id \notin {NoneId, ""}

NoReply == Raised(<<>>)
NoOutcome == [kind |-> "running", error |-> "", value |-> <<>>]
\* correct() raised error / returned the list value
RaisedWith(error) == [kind |-> "raised", error |-> error, value |-> <<>>]
ReturnedList(value) == [kind |-> "returned", error |-> "", value |-> value]
DocumentFailed == "ValueError: document processing failed"
AllFailed == "ValueError: JSON parsing of every paragraph failed"

Segments(n) == [i \in 1..n |-> <<"segment", i>>]
NoParagraphs == [isNone |-> TRUE, list |-> <<>>]

Init ==
    /\ pc = "idle"
    /\ progress_callback = FALSE
    /\ task_id = NoneId
    /\ max_workers = 1
    /\ paragraphs = NoParagraphs
    /\ total_paragraphs = 0
    /\ future = <<>>
    /\ future_result = <<>>
    /\ reply = <<>>
    /\ calls = <<>>
    /\ requests = <<>>
    /\ corrected_paragraphs = <<>>
    /\ completed_count = 0
    /\ events = <<>>
    /\ merge_index = 0
    /\ merge_log = <<>>
    /\ all_corrections = <<>>
    /\ outcome = NoOutcome
    /\ reordered = FALSE
    /\ SegmenterIdle
    /\ NoUploads

\* set_progress_callback(callback)
SetProgressCallback ==
    /\ pc = "idle"
    /\ progress_callback = FALSE
    /\ progress_callback' = TRUE
    /\ UNCHANGED <<pc, task_id, max_workers, paragraphs, total_paragraphs,
                   future, future_result, reply, calls, requests, corrected_paragraphs,
                   completed_count, events, merge_index, merge_log,
                   all_corrections, outcome, reordered>>
    /\ UNCHANGED <<segmenter_vars, web_vars>>

\* correct(task_id, max_workers) when dataProcessor.process() returns None:
\* the ValueError of line 121, re-raised by the outer handler
CorrectProcessFails ==
    /\ pc = "idle"
    /\ \E id \in TaskIds, mw \in 1..MaxWorkers :
         /\ task_id' = id
         /\ max_workers' = mw
    /\ paragraphs' = NoParagraphs
    /\ outcome' = RaisedWith(DocumentFailed)
    /\ pc' = "raised"
    /\ UNCHANGED <<progress_callback, total_paragraphs, future, future_result,
                   reply, calls, requests, corrected_paragraphs, completed_count,
                   events, merge_index, merge_log, all_corrections, reordered>>
    /\ UNCHANGED <<segmenter_vars, web_vars>>

\* correct(task_id, max_workers) up to the creation of the executor:
\* process() returns a list of n paragraphs, n = 0 included
CorrectBegin ==
    /\ pc = "idle"
    /\ \E id \in TaskIds, mw \in 1..MaxWorkers, n \in 0..MaxSegs :
         /\ task_id' = id
         /\ max_workers' = mw
         /\ paragraphs' = [isNone |-> FALSE, list |-> Segments(n)]
         /\ total_paragraphs' = n
         /\ corrected_paragraphs' = [i \in 1..n |-> None]
         /\ future' = [i \in 1..n |-> "unsubmitted"]
         /\ future_result' = [i \in 1..n |-> <<>>]
         /\ reply' = [i \in 1..n |-> NoReply]
         /\ calls' = [i \in 1..n |-> 0]
         /\ requests' = [i \in 1..n |-> 0]
    /\ completed_count' = 0
    /\ pc' = "pool"
    /\ UNCHANGED <<progress_callback, events, merge_index, merge_log,
                   all_corrections, outcome, reordered>>
    /\ UNCHANGED <<segmenter_vars, web_vars>>

Submitted == {i \in DOMAIN future : future[i] # "unsubmitted"}
Running == {i \in DOMAIN future : future[i] = "running"}

\* executor.submit(process_paragraph, (idx, paragraph)), in enumerate order
Submit(idx) ==
    /\ pc = "pool"
    /\ idx \in DOMAIN future
    /\ future[idx] = "unsubmitted"
    /\ \A j \in 1..(idx - 1) : future[j] # "unsubmitted"
    /\ future' = [future EXCEPT ![idx] = "queued"]
    /\ UNCHANGED <<pc, progress_callback, task_id, max_workers, paragraphs,
                   total_paragraphs, future_result, reply, calls, requests,
                   corrected_paragraphs, completed_count, events, merge_index,
                   merge_log, all_corrections, outcome, reordered>>
    /\ UNCHANGED <<segmenter_vars, web_vars>>

\* a pool that starts a thread for every work item
PoolUncapped(running, cap) == TRUE

\* ThreadPoolExecutor(max_workers): a work item is taken by an idle thread
\* or by a new one, and threads are added only below max_workers
PoolHasFreeThread(running, cap) == Cardinality(running) < cap

\* the calling thread is inside the with block of line 204 or waiting in
\* its exit for the pool to shut down: the pool threads run
PoolAlive == pc \in {"pool", "unwinding"}

\* a pool thread takes the oldest queued work item and calls get_response
WorkerStart(idx) ==
    /\ PoolAlive
    /\ idx \in DOMAIN future
    /\ future[idx] = "queued"
    /\ \A j \in 1..(idx - 1) : future[j] # "queued"
    /\ PoolHasFreeThread(Running, max_workers)
    /\ future' = [future EXCEPT ![idx] = "running"]
    /\ calls' = [calls EXCEPT ![idx] = @ + 1]
    /\ requests' = [requests EXCEPT ![idx] = @ + RequestsPerCall]
    /\ UNCHANGED <<pc, progress_callback, task_id, max_workers, paragraphs,
                   total_paragraphs, future_result, reply,
                   corrected_paragraphs, completed_count, events, merge_index,
                   merge_log, all_corrections, outcome, reordered>>
    /\ UNCHANGED <<segmenter_vars, web_vars>>

\* get_response gives r; the rest of process_paragraph runs and the future
\* gets its result
WorkerGets(idx, r) ==
    /\ PoolAlive
    /\ idx \in DOMAIN future
    /\ future[idx] = "running"
    /\ reply' = [reply EXCEPT ![idx] = r]
    /\ future_result' = [future_result EXCEPT ![idx] = process_paragraph(r)]
    /\ future' = [future EXCEPT ![idx] = "finished"]
    /\ UNCHANGED <<pc, progress_callback, task_id, max_workers, paragraphs,
                   total_paragraphs, calls, requests, corrected_paragraphs,
                   completed_count, events, merge_index, merge_log,
                   all_corrections, outcome, reordered>>
    /\ UNCHANGED <<segmenter_vars, web_vars>>

WorkerFinish(idx) == \E r \in Replies : WorkerGets(idx, r)

\* round(x) of Python for x = num / den >= 0: to the nearest integer, a
\* half to the even one
RoundHalfEven(num, den) ==
    IF 2 * (num % den) > den THEN (num \div den) + 1
    ELSE IF 2 * (num % den) < den THEN num \div den
    ELSE IF (num \div den) % 2 = 0 THEN num \div den
    ELSE (num \div den) + 1

\* lines 228-233: round(remaining_paragraphs * (elapsed_time / completed_count))
EstimatedTimeRemaining(elapsed, completed, total) ==
    IF completed > 0
    THEN RoundHalfEven((total - completed) * elapsed, completed)
    ELSE 0

\* current and total passed in each other's place
ProgressEventSwapped(id, progress, elapsed, estimated, current, total) ==
    [task_id |-> id, progress |-> progress, elapsed_time |-> elapsed,
     estimated_time |-> estimated, current |-> total, total |-> current]

\* the keyword arguments of one call of progress_callback
ProgressEvent(id, progress, elapsed, estimated, current, total) ==
    [task_id |-> id, progress |-> progress, elapsed_time |-> elapsed,
     estimated_time |-> estimated, current |-> current, total |-> total]

\* a test that looks at the callback alone
CallbackDueWithoutId(callback, id) == callback

\* "if self.progress_callback and task_id" (lines 236 and 248)
CallbackDue(callback, id) == callback /\ Truthy(id)

\* the calls made so far, without a final one
NoFinalReport(calls_made, id, elapsed, total) == calls_made

\* lines 249-257: the final call, with progress 100 and no time remaining
FinalReport(calls_made, id, elapsed, total) ==
    Append(calls_made, ProgressEvent(id, 10000, elapsed, 0, total, total))

\* readings of time.time() - start_time, in whole seconds: a run may take
\* less than a second or more
ElapsedSeconds == {0, 1}

\* time.time() - start_time as the calling thread can read it next: not
\* less than the reading the latest progress event carries
ElapsedReadings ==
    IF CallbackDue(progress_callback, task_id)
    THEN {e \in ElapsedSeconds :
            events # <<>> => e >= events[Len(events)].elapsed_time}
    ELSE {0}

\* storing every result in the first slot
ResultSlotFirst(idx, count) == 1

\* storing at the position of completion instead of the index
ResultSlotByCompletion(idx, count) == count

\* the slot the result of the future of idx is stored in
ResultSlot(idx, count) == idx

\* one iteration of "for future in as_completed(future_to_idx)"; every
\* future is submitted before the loop starts
Collect(idx) ==
    /\ pc = "pool"
    /\ Submitted = DOMAIN future
    /\ idx \in DOMAIN future
    /\ future[idx] = "finished"
    /\ completed_count' = completed_count + 1
    /\ corrected_paragraphs' =
         [corrected_paragraphs EXCEPT
            ![ResultSlot(idx, completed_count')] = Str(future_result[idx])]
    /\ future' = [future EXCEPT ![idx] = "collected"]
    /\ \E elapsed_time \in ElapsedReadings :
         events' =
           IF CallbackDue(progress_callback, task_id)
           THEN Append(events,
                  ProgressEvent(task_id,
                                ProgressPercent(completed_count', total_paragraphs),
                                elapsed_time,
                                EstimatedTimeRemaining(elapsed_time,
                                                       completed_count',
                                                       total_paragraphs),
                                completed_count', total_paragraphs))
           ELSE events
    /\ reordered' = (reordered \/ \E j \in 1..(idx - 1) : future[j] # "collected")
    /\ UNCHANGED <<pc, progress_callback, task_id, max_workers, paragraphs,
                   total_paragraphs, future_result, reply, calls, requests, merge_index,
                   merge_log, all_corrections, outcome>>
    /\ UNCHANGED <<segmenter_vars, web_vars>>

\* leaving the loop at the first failure outcome
AllCollectedOrFailure ==
    \/ \A i \in DOMAIN future : future[i] = "collected"
    \/ \E i \in DOMAIN future :
         future[i] = "collected" /\ StartsWith(future_result[i], "CHULI")

\* leaving the loop at the first completed future
FirstCollected ==
    \/ future = <<>>
    \/ \E i \in DOMAIN future : future[i] = "collected"

\* as_completed has yielded every future: the loop is over
AllCollected == \A i \in DOMAIN future : future[i] = "collected"

\* the loop ends, the with block shuts the executor down, and the final
\* progress report (lines 247-257) is made
FinalProgress ==
    /\ pc = "pool"
    /\ AllCollected
    /\ \E elapsed_time \in ElapsedReadings :
         events' =
           IF CallbackDue(progress_callback, task_id)
           THEN FinalReport(events, task_id, elapsed_time, total_paragraphs)
           ELSE events
    /\ all_corrections' = <<>>
    /\ merge_index' = 1
    /\ pc' = "merge"
    /\ UNCHANGED <<progress_callback, task_id, max_workers, paragraphs,
                   total_paragraphs, future, future_result, reply, calls, requests,
                   corrected_paragraphs, completed_count, merge_log, outcome,
                   reordered>>
    /\ UNCHANGED <<segmenter_vars, web_vars>>

\* one iteration of "for i, paragraph in enumerate(corrected_paragraphs)"
MergeStep ==
    /\ pc = "merge"
    /\ merge_index <= Len(corrected_paragraphs)
    /\ \E m \in {MergeOne(corrected_paragraphs[merge_index])} :
         /\ all_corrections' = all_corrections \o m.items
         /\ merge_log' = Append(merge_log,
                                [branch |-> m.log, added |-> Len(m.items)])
    /\ merge_index' = merge_index + 1
    /\ UNCHANGED <<pc, progress_callback, task_id, max_workers, paragraphs,
                   total_paragraphs, future, future_result, reply, calls, requests,
                   corrected_paragraphs, completed_count, events, outcome,
                   reordered>>
    /\ UNCHANGED <<segmenter_vars, web_vars>>

\* the test without its second operand
RaisesOnEmptyResult(corrections, slots) == corrections = <<>>

\* the test with its first operand negated
RaisesOnNonEmptyResult(corrections, slots) == corrections # <<>> /\ slots # <<>>

\* "if not all_corrections and corrected_paragraphs"
RaisesAllFailed(corrections, slots) == corrections = <<>> /\ slots # <<>>

\* lines 315-317: the ValueError after the merge
FinishRaise ==
    /\ pc = "merge"
    /\ merge_index > Len(corrected_paragraphs)
    /\ RaisesAllFailed(all_corrections, corrected_paragraphs)
    /\ outcome' = RaisedWith(AllFailed)
    /\ pc' = "raised"
    /\ UNCHANGED <<progress_callback, task_id, max_workers, paragraphs,
                   total_paragraphs, future, future_result, reply, calls, requests,
                   corrected_paragraphs, completed_count, events, merge_index,
                   merge_log, all_corrections, reordered>>
    /\ UNCHANGED <<segmenter_vars, web_vars>>

\* lines 319-320: return all_corrections
FinishReturn ==
    /\ pc = "merge"
    /\ merge_index > Len(corrected_paragraphs)
    /\ ~RaisesAllFailed(all_corrections, corrected_paragraphs)
    /\ outcome' = ReturnedList(all_corrections)
    /\ pc' = "returned"
    /\ UNCHANGED <<progress_callback, task_id, max_workers, paragraphs,
                   total_paragraphs, future, future_result, reply, calls, requests,
                   corrected_paragraphs, completed_count, events, merge_index,
                   merge_log, all_corrections, reordered>>
    /\ UNCHANGED <<segmenter_vars, web_vars>>

Next ==
    \/ SetProgressCallback
    \/ CorrectProcessFails
    \/ CorrectBegin
    \/ \E idx \in 1..MaxSegs : Submit(idx)
    \/ \E idx \in 1..MaxSegs : WorkerStart(idx)
    \/ \E idx \in 1..MaxSegs : WorkerFinish(idx)
    \/ \E idx \in 1..MaxSegs : Collect(idx)
    \/ FinalProgress
    \/ MergeStep
    \/ FinishRaise
    \/ FinishReturn

Spec == Init /\ [][Next]_vars

\* the same program with its scheduling: the calling thread goes on
\* submitting and collecting, a pool thread with nothing to do takes the
\* oldest queued item, and every call of get_response comes back (with a
\* reply or an exception)
LiveSpec ==
    /\ Spec
    /\ WF_vars(\E idx \in 1..MaxSegs : Submit(idx))
    /\ WF_vars(\E idx \in 1..MaxSegs : WorkerStart(idx))
    /\ WF_vars(\E idx \in 1..MaxSegs : WorkerFinish(idx))
    /\ WF_vars(\E idx \in 1..MaxSegs : Collect(idx))

\* ------------------------------------------------------------------------
\* One response through the worker and the merge: the run of a one-segment
\* document whose get_response call is in flight, for every response text
\* of RawTexts
\* ------------------------------------------------------------------------
\* records whose original holds a bracket: "]", "[" and "[]"
RecClose == <<"{", "O", ":", "q", "]", "q", ",", "C", ":", "B", "}">>
RecOpen == <<"{", "O", ":", "q", "[", "q", ",", "C", ":", "B", "}">>
RecBoth == <<"{", "O", ":", "q", "[", "]", "q", ",", "C", ":", "B", "}">>

\* the texts of parts one after the other with sep between them
RECURSIVE JoinWith(_, _)
JoinWith(parts, sep) ==
    IF parts = <<>> THEN <<>>
    ELSE IF Len(parts) = 1 THEN parts[1]
    ELSE parts[1] \o sep \o JoinWith(Tail(parts), sep)

\* the JSON text of the array of the records recs
ArrayOf(recs) == <<"[">> \o JoinWith(recs, <<",", " ">>) \o <<"]">>

\* arrays of records that have both fields, in the order written
RecordLists ==
    { <<RecA>>, <<RecA, RecB>>, <<RecB, RecA, RecB>>, <<RecClose>>,
      <<RecOpen, RecA>>, <<RecBoth>>, <<RecNotStrings>> }
WellFormedArrays == {ArrayOf(recs) : recs \in RecordLists}

\* arrays that mix records having both fields with records that miss one
MixedLists ==
    { <<RecB, RecNoCorrected>>, <<RecNoOriginal, RecA, RecB>>,
      <<RecA, RecNoCorrected, RecB, RecNoOriginal>>,
      <<RecClose, RecNoOriginal>>, <<RecNoCorrected, RecOpen>> }

\* other contents: the empty array, an array of a number, arrays with an
\* incomplete record, arrays cut short, a record outside any array, one in
\* an object, no text, brackets that do not pair
OtherContents ==
    { <<"[", "]">>,
      <<"[", "1", "]">>,
      ArrayOf(<<RecNoCorrected>>),
      ArrayOf(<<RecB, RecNoCorrected>>),
      <<"[">> \o RecA,
      <<"[">> \o RecClose,
      RecA,
      <<"{", "A", ":">> \o RecA \o <<"}">>,
      <<>>,
      <<"[", " ", "a">>,
      <<"]", " ", "[">>,
      <<"}", " ", "{">>,
      <<"{", " ", "a">> }

\* prose without brackets in front of the content and behind it; one
\* starts with the two characters the merge takes for a failure
ProseBefore == {<<>>, <<"a", " ">>, <<"CHULI", " ">>}
ProseAfter == {<<>>, <<" ", "b">>}

WrappedTexts ==
    {before \o content \o after :
        before \in ProseBefore,
        content \in WellFormedArrays \cup OtherContents
                      \cup {ArrayOf(recs) : recs \in MixedLists},
        after \in ProseAfter}

\* bracketed candidates: empty, of a number, not JSON, with an incomplete
\* record, and two valid ones
ValidCandidates == {ArrayOf(<<RecA>>), ArrayOf(<<RecB>>)}
InvalidCandidates ==
    { <<"[", "]">>, <<"[", "1", "]">>, <<"[", "a", "]">>,
      ArrayOf(<<RecNoCorrected>>) }
CandidateLists ==
    UNION {[1..n -> ValidCandidates \cup InvalidCandidates] :
             n \in 2..MaxCandidates}
CandidateTexts == {JoinWith(cands, <<" ">>) : cands \in CandidateLists}

RawTexts == WrappedTexts \cup CandidateTexts

\* a one-segment run at the point where get_response is about to return
\* the response text drawn here
ParserInit ==
    /\ pc = "pool"
    /\ progress_callback = FALSE
    /\ task_id = NoneId
    /\ max_workers = 1
    /\ paragraphs = [isNone |-> FALSE, list |-> Segments(1)]
    /\ total_paragraphs = 1
    /\ future = <<"running">>
    /\ future_result = <<(<<>>)>>
    /\ \E r \in {Returned(text) : text \in RawTexts} \cup ClientFailures :
         reply = <<r>>
    /\ calls = <<1>>
    /\ requests = <<1>>
    /\ corrected_paragraphs = <<None>>
    /\ completed_count = 0
    /\ events = <<>>
    /\ merge_index = 0
    /\ merge_log = <<>>
    /\ all_corrections = <<>>
    /\ outcome = NoOutcome
    /\ reordered = FALSE
    /\ SegmenterIdle
    /\ NoUploads

\* get_response returns the response text; lines 142-201 run
ParseResponse == WorkerGets(1, reply[1])

ParserNext ==
    \/ ParseResponse
    \/ Collect(1)
    \/ FinalProgress
    \/ MergeStep
    \/ FinishRaise
    \/ FinishReturn

ParserSpec == ParserInit /\ [][ParserNext]_vars

\* ------------------------------------------------------------------------
\* A progress callback that can raise: the pool of one call of correct()
\* with a callback and a task id, from the creation of the executor on
\* ------------------------------------------------------------------------
CallbackFailed == "Exception: raised by progress_callback"

\* leaving the with block without waiting for the pool
ExitWithoutWait == TRUE

\* the exit of the with block, executor.shutdown(wait=True): the pool
\* threads have run every work item, the queued ones included
WorkersDone ==
    \A i \in DOMAIN future : future[i] \in {"finished", "collected"}

\* correct(task_id, max_workers) has called process() and created the
\* executor; set_progress_callback was called before
CallbackInit ==
    /\ pc = "pool"
    /\ progress_callback = TRUE
    /\ task_id = "task-1"
    /\ max_workers \in 1..MaxWorkers
    /\ total_paragraphs \in 0..MaxSegs
    /\ paragraphs = [isNone |-> FALSE, list |-> Segments(total_paragraphs)]
    /\ future = [i \in 1..total_paragraphs |-> "unsubmitted"]
    /\ future_result = [i \in 1..total_paragraphs |-> <<>>]
    /\ reply = [i \in 1..total_paragraphs |-> NoReply]
    /\ calls = [i \in 1..total_paragraphs |-> 0]
    /\ requests = [i \in 1..total_paragraphs |-> 0]
    /\ corrected_paragraphs = [i \in 1..total_paragraphs |-> None]
    /\ completed_count = 0
    /\ events = <<>>
    /\ merge_index = 0
    /\ merge_log = <<>>
    /\ all_corrections = <<>>
    /\ outcome = NoOutcome
    /\ reordered = FALSE
    /\ SegmenterIdle
    /\ NoUploads

\* one iteration of the loop of line 212 in which the call of
\* progress_callback (lines 238-245) raises: the exception leaves the loop
CollectRaises(idx) ==
    /\ pc = "pool"
    /\ Submitted = DOMAIN future
    /\ idx \in DOMAIN future
    /\ future[idx] = "finished"
    /\ CallbackDue(progress_callback, task_id)
    /\ completed_count' = completed_count + 1
    /\ corrected_paragraphs' =
         [corrected_paragraphs EXCEPT
            ![ResultSlot(idx, completed_count')] = Str(future_result[idx])]
    /\ future' = [future EXCEPT ![idx] = "collected"]
    /\ \E elapsed_time \in ElapsedReadings :
         events' =
           Append(events,
                  ProgressEvent(task_id,
                                ProgressPercent(completed_count', total_paragraphs),
                                elapsed_time,
                                EstimatedTimeRemaining(elapsed_time,
                                                       completed_count',
                                                       total_paragraphs),
                                completed_count', total_paragraphs))
    /\ reordered' = (reordered \/ \E j \in 1..(idx - 1) : future[j] # "collected")
    /\ pc' = "unwinding"
    /\ UNCHANGED <<progress_callback, task_id, max_workers, paragraphs,
                   total_paragraphs, future_result, reply, calls, requests,
                   merge_index, merge_log, all_corrections, outcome>>
    /\ UNCHANGED <<segmenter_vars, web_vars>>

\* the exception leaves the with block once the pool has shut down, and
\* the handler of lines 321-324 raises it again
ExecutorExit ==
    /\ pc = "unwinding"
    /\ WorkersDone
    /\ outcome' = RaisedWith(CallbackFailed)
    /\ pc' = "raised"
    /\ UNCHANGED <<progress_callback, task_id, max_workers, paragraphs,
                   total_paragraphs, future, future_result, reply, calls,
                   requests, corrected_paragraphs, completed_count, events,
                   merge_index, merge_log, all_corrections, reordered>>
    /\ UNCHANGED <<segmenter_vars, web_vars>>

\* the final call of progress_callback (lines 250-257) raises
FinalProgressRaises ==
    /\ pc = "pool"
    /\ AllCollected
    /\ CallbackDue(progress_callback, task_id)
    /\ \E elapsed_time \in ElapsedReadings :
         events' = FinalReport(events, task_id, elapsed_time, total_paragraphs)
    /\ outcome' = RaisedWith(CallbackFailed)
    /\ pc' = "raised"
    /\ UNCHANGED <<progress_callback, task_id, max_workers, paragraphs,
                   total_paragraphs, future, future_result, reply, calls,
                   requests, corrected_paragraphs, completed_count,
                   merge_index, merge_log, all_corrections, reordered>>
    /\ UNCHANGED <<segmenter_vars, web_vars>>

CallbackNext ==
    \/ \E idx \in 1..MaxSegs : Submit(idx)
    \/ \E idx \in 1..MaxSegs : WorkerStart(idx)
    \/ \E idx \in 1..MaxSegs : WorkerFinish(idx)
    \/ \E idx \in 1..MaxSegs : Collect(idx)
    \/ \E idx \in 1..MaxSegs : CollectRaises(idx)
    \/ ExecutorExit
    \/ FinalProgress
    \/ FinalProgressRaises
    \/ MergeStep
    \/ FinishRaise
    \/ FinishReturn

CallbackSpec == CallbackInit /\ [][CallbackNext]_vars

\* ------------------------------------------------------------------------
\* DocumentProcessor.process(): combine_paragraphs, then preprocess_text.
\* Here a paragraph is a sequence of characters, one token each: "^A" is
\* the control character U+0001, "JUHAO" the ideographic full stop, and
\* "DOUHAO", "GANTANHAO", "WENHAO", "FENHAO", "MAOHAO" the full-width
\* comma, exclamation mark, question mark, semicolon and colon.
\* ------------------------------------------------------------------------
\* a is a substring of b ("a in b")
IsSubstring(a, b) ==
    \E i \in 0..(Len(b) - Len(a)) : SubSeq(b, i + 1, i + Len(a)) = a

\* the state of the loop of combine_paragraphs
Accumulated(done, current, count) ==
    [combined_paragraphs |-> done, current_combined |-> current,
     current_char_count |-> count]

\* lines 115-119: the paragraph is put behind the current segment, with a
\* space between them, and its length is added to the count
Joined(acc, paragraph) ==
    IF acc.current_combined # <<>>
    THEN Accumulated(acc.combined_paragraphs,
                     acc.current_combined \o <<" ">> \o paragraph,
                     acc.current_char_count + Len(paragraph))
    ELSE Accumulated(acc.combined_paragraphs, paragraph,
                     acc.current_char_count + Len(paragraph))

\* starting the new segment without storing the current one
FlushedLosingCurrent(acc, paragraph) ==
    Accumulated(acc.combined_paragraphs, paragraph, Len(paragraph))

\* lines 109-112: the current segment is stored and the paragraph starts
\* the next one
Flushed(acc, paragraph) ==
    Accumulated(Append(acc.combined_paragraphs, acc.current_combined),
                paragraph, Len(paragraph))

\* one iteration of the loop of lines 98-119
CombineOne(acc, paragraph, budget) ==
    IF Strip(paragraph) = <<>> THEN acc
    ELSE IF acc.current_char_count + Len(paragraph) > budget
            /\ acc.current_combined # <<>>
         THEN Flushed(acc, paragraph)
    ELSE Joined(acc, paragraph)

RECURSIVE CombineLoop(_, _, _)
CombineLoop(acc, paragraph_list, budget) ==
    IF paragraph_list = <<>> THEN acc
    ELSE CombineLoop(CombineOne(acc, Head(paragraph_list), budget),
                     Tail(paragraph_list), budget)

\* lines 91-125: the loop, then the last segment if there is one
combine_paragraphs(paragraph_list) ==
    LET acc == CombineLoop(Accumulated(<<>>, <<>>, 0), paragraph_list,
                           MAX_CHARS_PER_PARAGRAPH)
    IN  IF paragraph_list = <<>> THEN <<>>
        ELSE IF acc.current_combined # <<>>
             THEN Append(acc.combined_paragraphs, acc.current_combined)
        ELSE acc.combined_paragraphs

\* line 155: every run of whitespace becomes one space
RECURSIVE CollapseSpaces(_)
CollapseSpaces(s) ==
    IF s = <<>> THEN <<>>
    ELSE IF Head(s) \in Whitespace
         THEN <<" ">> \o CollapseSpaces(LStrip(s))
    ELSE <<Head(s)>> \o CollapseSpaces(Tail(s))

\* line 158: the characters of [\x00-\x1F\x7F-\x9F] are removed
ControlCharacters == {"^A"}
RemoveControl(s) == SelectSeq(s, LAMBDA c : c \notin ControlCharacters)

\* line 161: a punctuation mark repeated is kept once
RepeatedMarks ==
    {"JUHAO", "DOUHAO", "GANTANHAO", "WENHAO", "FENHAO", "MAOHAO",
     ",", ".", "!", "?", ";", ":"}
RECURSIVE CollapseMarks(_)
CollapseMarks(s) ==
    IF Len(s) < 2 THEN s
    ELSE IF s[1] \in RepeatedMarks /\ s[2] = s[1] THEN CollapseMarks(Tail(s))
    ELSE <<Head(s)>> \o CollapseMarks(Tail(s))

\* line 164: ^\d+(\s*\d+)*$
IsDigitLine(s) ==
    /\ s # <<>>
    /\ \A k \in 1..Len(s) : s[k] \in Digits \cup Whitespace
    /\ s[1] \in Digits
    /\ s[Len(s)] \in Digits

\* line 168: ^[-=_*]{5,}$
IsRuleLine(s) ==
    Len(s) >= 5 /\ \A k \in 1..Len(s) : s[k] \in {"-", "=", "_", "*"}

\* line 172: ^(https?://|www\.|file://|[a-zA-Z]:\\).+$
UrlPrefixes ==
    { <<"h", "t", "t", "p", ":", "/", "/">>,
      <<"h", "t", "t", "p", "s", ":", "/", "/">>,
      <<"w", "w", "w", ".">>,
      <<"f", "i", "l", "e", ":", "/", "/">> }
    \cup {<<c, ":", "\\">> : c \in {"a", "b", "c", "d", "e", "x", "y"}}
IsUrlLine(s) ==
    \E prefix \in UrlPrefixes :
        Len(s) > Len(prefix) /\ SubSeq(s, 1, Len(prefix)) = prefix

\* line 176: the characters a paragraph may end with
Terminators ==
    {".", "JUHAO", "!", "GANTANHAO", "?", "WENHAO", ";", "FENHAO"}

\* what the body of the loop of lines 142-180 does with one paragraph:
\* "skip" (continue), "keep" (append text) or "raise"
Cleaned(kind, text) == [kind |-> kind, text |-> text]

\* lines 176-180; paragraph[-1] of the empty string raises IndexError
Terminated(paragraph) ==
    IF paragraph = <<>> THEN Cleaned("raise", <<>>)
    ELSE IF paragraph[Len(paragraph)] \notin Terminators
         THEN Cleaned("keep", paragraph \o <<"JUHAO">>)
    ELSE Cleaned("keep", paragraph)

\* lines 163-180
Filtered(paragraph) ==
    IF IsDigitLine(paragraph) \/ IsRuleLine(paragraph) \/ IsUrlLine(paragraph)
    THEN Cleaned("skip", <<>>)
    ELSE Terminated(paragraph)

\* lines 143-180
CleanOne(paragraph) ==
    IF Len(Strip(paragraph)) < 5 THEN Cleaned("skip", <<>>)
    ELSE Filtered(CollapseMarks(RemoveControl(CollapseSpaces(
                                                  Strip(paragraph)))))

\* the loop of lines 142-180: the list cleaned_paragraphs, or the exception
RECURSIVE CleanLoop(_, _)
CleanStep(one, paragraph_list, cleaned) ==
    IF one.kind = "raise" THEN [raised |-> TRUE, list |-> <<>>]
    ELSE IF one.kind = "skip" THEN CleanLoop(paragraph_list, cleaned)
    ELSE CleanLoop(paragraph_list, Append(cleaned, one.text))
CleanLoop(paragraph_list, cleaned) ==
    IF paragraph_list = <<>> THEN [raised |-> FALSE, list |-> cleaned]
    ELSE CleanStep(CleanOne(Head(paragraph_list)), Tail(paragraph_list), cleaned)

\* lines 183-192
RECURSIVE UniqueLoop(_, _)
UniqueLoop(cleaned, unique) ==
    IF cleaned = <<>> THEN unique
    ELSE IF \E k \in 1..Len(unique) :
                \/ IsSubstring(Head(cleaned), unique[k])
                \/ IsSubstring(unique[k], Head(cleaned))
         THEN UniqueLoop(Tail(cleaned), unique)
    ELSE UniqueLoop(Tail(cleaned), Append(unique, Head(cleaned)))

\* paragraphs as load_document can return them: empty, blank, short,
\* of the length of the budget, longer than the budget and holding another
\* one, of control characters only, a control character in front of a
\* space, digits, a rule, a URL, repeated marks and spaces
SampleParagraphs ==
    { <<>>,
      <<" ">>,
      <<"a", "b", ".">>,
      <<"a", "b", "c">>,
      <<"a", "b", "c", "d", "e", ".">>,
      <<"x", " ", "a", "b", "c", "d", "e", ".", " ", "y">>,
      <<"^A", "^A", "^A", "^A", "^A">>,
      <<"^A", " ", "a", "b", "c", "d">>,
      <<"1", "1", " ", "1", "1">>,
      <<"-", "-", "-", "-", "-">>,
      <<"w", "w", "w", ".", "a">>,
      <<"a", "b", ".", ".", " ", " ", "c">> }

\* load_document() has returned a list of paragraphs
SegmenterInit ==
    /\ segmenter_pc = "loaded"
    /\ document \in UNION {[1..n -> SampleParagraphs] : n \in 0..MaxParagraphs}
    /\ combined_paragraphs = <<>>
    /\ cleaned_paragraphs = <<>>
    /\ unique_paragraphs = <<>>
    /\ pc = "idle"
    /\ progress_callback = FALSE
    /\ task_id = NoneId
    /\ max_workers = 1
    /\ paragraphs = NoParagraphs
    /\ total_paragraphs = 0
    /\ future = <<>>
    /\ future_result = <<>>
    /\ reply = <<>>
    /\ calls = <<>>
    /\ requests = <<>>
    /\ corrected_paragraphs = <<>>
    /\ completed_count = 0
    /\ events = <<>>
    /\ merge_index = 0
    /\ merge_log = <<>>
    /\ all_corrections = <<>>
    /\ outcome = NoOutcome
    /\ reordered = FALSE
    /\ NoUploads

corrector_vars ==
    <<pc, progress_callback, task_id, max_workers, paragraphs,
      total_paragraphs, future, future_result, reply, calls, requests,
      corrected_paragraphs, completed_count, events, merge_index,
      merge_log, all_corrections, outcome, reordered>>

\* combined_paragraphs = self.combine_paragraphs(paragraphs)
Combine ==
    /\ segmenter_pc = "loaded"
    /\ combined_paragraphs' = combine_paragraphs(document)
    /\ segmenter_pc' = "combined"
    /\ UNCHANGED <<document, cleaned_paragraphs, unique_paragraphs>>
    /\ UNCHANGED <<corrector_vars, web_vars>>

\* preprocess_text, lines 137-180: the first loop ends
Clean ==
    /\ segmenter_pc = "combined"
    /\ ~CleanLoop(combined_paragraphs, <<>>).raised
    /\ cleaned_paragraphs' = CleanLoop(combined_paragraphs, <<>>).list
    /\ segmenter_pc' = "cleaned"
    /\ UNCHANGED <<document, combined_paragraphs, unique_paragraphs>>
    /\ UNCHANGED <<corrector_vars, web_vars>>

\* preprocess_text, line 176: IndexError, which process() does not catch
CleanRaises ==
    /\ segmenter_pc = "combined"
    /\ CleanLoop(combined_paragraphs, <<>>).raised
    /\ segmenter_pc' = "raised"
    /\ UNCHANGED <<document, combined_paragraphs, cleaned_paragraphs,
                   unique_paragraphs>>
    /\ UNCHANGED <<corrector_vars, web_vars>>

\* preprocess_text, lines 182-194; process() returns the list
Deduplicate ==
    /\ segmenter_pc = "cleaned"
    /\ unique_paragraphs' = UniqueLoop(cleaned_paragraphs, <<>>)
    /\ segmenter_pc' = "returned"
    /\ UNCHANGED <<document, combined_paragraphs, cleaned_paragraphs>>
    /\ UNCHANGED <<corrector_vars, web_vars>>

SegmenterNext ==
    \/ Combine
    \/ Clean
    \/ CleanRaises
    \/ Deduplicate

SegmenterSpec == SegmenterInit /\ [][SegmenterNext]_vars

\* ------------------------------------------------------------------------
\* The web application (src/app.py): upload, process_task in a thread of
\* its own per task, and the scheduled clean-up of the temporary folder.
\* The calls of the database session, of Socket.IO and of the file system
\* return normally.
\* ------------------------------------------------------------------------
\* an except branch that leaves the row as it is
RowUntouched(status) == status

\* line 237: task.status = 'failed'
RowAfterError(status) == "failed"

\* index(), POST with an allowed file, lines 290-326: the file is saved,
\* the row is created and committed, the 0% progress is emitted and the
\* thread is started
Upload(t) ==
    /\ thread_pc[t] = "none"
    /\ \A u \in 1..(t - 1) : thread_pc[u] # "none"
    /\ temp_file' = [temp_file EXCEPT ![t] = TRUE]
    /\ task_status' = [task_status EXCEPT ![t] = "running"]
    /\ status_writes' = [status_writes EXCEPT ![t] = <<"running">>]
    /\ socket_events' = [socket_events EXCEPT ![t] = <<"task_progress">>]
    /\ thread_pc' = [thread_pc EXCEPT ![t] = "started"]
    /\ UNCHANGED thread_outcome
    /\ UNCHANGED <<corrector_vars, segmenter_vars>>

\* the thread goes from one position to the next
Goes(t, from, to) ==
    /\ thread_pc[t] = from
    /\ thread_pc' = [thread_pc EXCEPT ![t] = to]

\* an inner try block raised: its handler raises the ValueError that the
\* outer handler (line 231) catches
Fails(t, from, how) ==
    /\ Goes(t, from, "except")
    /\ thread_outcome' = [thread_outcome EXCEPT ![t] = how]

\* lines 178-186: create_processor gives a processor, or None or an
\* exception
CreateProcessor(t) ==
    /\ \/ Goes(t, "started", "has_processor") /\ UNCHANGED thread_outcome
       \/ Fails(t, "started", "processor_failed")
    /\ UNCHANGED <<task_status, status_writes, socket_events, temp_file>>
    /\ UNCHANGED <<corrector_vars, segmenter_vars>>

\* lines 189-195
CreateSolver(t) ==
    /\ \/ Goes(t, "has_processor", "has_solver") /\ UNCHANGED thread_outcome
       \/ Fails(t, "has_processor", "solver_failed")
    /\ UNCHANGED <<task_status, status_writes, socket_events, temp_file>>
    /\ UNCHANGED <<corrector_vars, segmenter_vars>>

\* lines 198-205 up to the loading of the document inside correct(): a
\* file that is gone cannot be loaded and correct() raises
LoadUpload(t) ==
    /\ IF temp_file[t]
       THEN Goes(t, "has_solver", "correcting") /\ UNCHANGED thread_outcome
       ELSE Fails(t, "has_solver", "correct_failed")
    /\ UNCHANGED <<task_status, status_writes, socket_events, temp_file>>
    /\ UNCHANGED <<corrector_vars, segmenter_vars>>

\* progress_callback (lines 45-103) called by correct(): the row's
\* progress is stored and task_progress is emitted; a run over n segments
\* calls it n + 1 times
ReportProgress(t) ==
    /\ thread_pc[t] = "correcting"
    /\ Len(socket_events[t]) <= MaxSegs + 1
    /\ socket_events' =
         [socket_events EXCEPT ![t] = Append(@, "task_progress")]
    /\ UNCHANGED <<task_status, status_writes, temp_file, thread_pc,
                   thread_outcome>>
    /\ UNCHANGED <<corrector_vars, segmenter_vars>>

\* line 205: correct() returns the list
CorrectReturns(t) ==
    /\ Goes(t, "correcting", "corrected")
    /\ thread_outcome' = [thread_outcome EXCEPT ![t] = "returned"]
    /\ UNCHANGED <<task_status, status_writes, socket_events, temp_file>>
    /\ UNCHANGED <<corrector_vars, segmenter_vars>>

\* lines 207-210: correct() raises
CorrectRaises(t) ==
    /\ Fails(t, "correcting", "correct_failed")
    /\ UNCHANGED <<task_status, status_writes, socket_events, temp_file>>
    /\ UNCHANGED <<corrector_vars, segmenter_vars>>

\* lines 213-230: the row, if there is one, gets status 'completed' and the
\* result, and task_complete is emitted
StoreCompleted(t) ==
    /\ Goes(t, "corrected", "finally")
    /\ IF task_status[t] # "none"
       THEN /\ task_status' = [task_status EXCEPT ![t] = "completed"]
            /\ status_writes' =
                 [status_writes EXCEPT ![t] = Append(@, "completed")]
            /\ socket_events' =
                 [socket_events EXCEPT ![t] = Append(@, "task_complete")]
       ELSE UNCHANGED <<task_status, status_writes, socket_events>>
    /\ UNCHANGED <<temp_file, thread_outcome>>
    /\ UNCHANGED <<corrector_vars, segmenter_vars>>

\* lines 231-252: the row, if there is one, gets status 'failed' and the
\* error, and task_error is emitted
StoreFailed(t) ==
    /\ Goes(t, "except", "finally")
    /\ IF task_status[t] # "none"
       THEN /\ task_status' =
                 [task_status EXCEPT ![t] = RowAfterError(task_status[t])]
            /\ status_writes' =
                 [status_writes EXCEPT ![t] =
                    Append(@, RowAfterError(task_status[t]))]
            /\ socket_events' =
                 [socket_events EXCEPT ![t] = Append(@, "task_error")]
       ELSE UNCHANGED <<task_status, status_writes, socket_events>>
    /\ UNCHANGED <<temp_file, thread_outcome>>
    /\ UNCHANGED <<corrector_vars, segmenter_vars>>

\* lines 253-260: the file is removed if it exists
RemoveUpload(t) ==
    /\ Goes(t, "finally", "done")
    /\ temp_file' = [temp_file EXCEPT ![t] = FALSE]
    /\ UNCHANGED <<task_status, status_writes, socket_events,
                   thread_outcome>>
    /\ UNCHANGED <<corrector_vars, segmenter_vars>>

\* cleanup_temp_files, run by the scheduler: every file of the temporary
\* folder is removed
CleanupTempFiles ==
    /\ \E t \in TaskKeys : temp_file[t]
    /\ temp_file' = [t \in TaskKeys |-> FALSE]
    /\ UNCHANGED <<task_status, status_writes, socket_events, thread_pc,
                   thread_outcome>>
    /\ UNCHANGED <<corrector_vars, segmenter_vars>>

TaskNext ==
    \/ \E t \in TaskKeys : Upload(t)
    \/ \E t \in TaskKeys : CreateProcessor(t)
    \/ \E t \in TaskKeys : CreateSolver(t)
    \/ \E t \in TaskKeys : LoadUpload(t)
    \/ \E t \in TaskKeys : ReportProgress(t)
    \/ \E t \in TaskKeys : CorrectReturns(t)
    \/ \E t \in TaskKeys : CorrectRaises(t)
    \/ \E t \in TaskKeys : StoreCompleted(t)
    \/ \E t \in TaskKeys : StoreFailed(t)
    \/ \E t \in TaskKeys : RemoveUpload(t)
    \/ CleanupTempFiles

TaskSpec == Init /\ [][TaskNext]_vars

\* ------------------------------------------------------------------------
\* Vocabulary of the properties
\* ------------------------------------------------------------------------
Terminal == pc \in {"returned", "raised"}
\* the run got a paragraph list from the segmenter
HasList == pc # "idle" /\ ~paragraphs.isNone
Indexes == DOMAIN future
SinkSet == progress_callback /\ Truthy(task_id)

\* get_response has answered for i
Answered(i) == future[i] \in {"finished", "collected"}
\* the replies a worker fails on: the client call raised or nothing could
\* be parsed from the content
FailedReplies == {r \in Replies : r.raised \/ ~ExtractJson(r.text).ok}
WorkerFailed(i) == Answered(i) /\ reply[i] \in FailedReplies
WorkerSucceeded(i) == Answered(i) /\ reply[i] \notin FailedReplies
IsFailureMarker(text) == StartsWith(text, "CHULI")

\* the correction items a reply parses to: the records with both fields of
\* the array the worker extracted, in the order of the array
ParsedItemsOf ==
    [r \in Replies \cup {NoReply} |->
        IF r.raised \/ ~ExtractJson(r.text).ok THEN <<>>
        ELSE SelectSeq(JsonLoads(ExtractJson(r.text).text).v.items,
                       IsRecordItem)]
ParsedItems(r) == ParsedItemsOf[r]

\* the outcome string the worker returns for each reply
OutcomeOf == [r \in Replies |-> process_paragraph(r)]

\* the items of the successful segments among 1..n, in index order
RECURSIVE ItemsInIndexOrder(_)
ItemsInIndexOrder(n) ==
    IF n = 0 THEN <<>>
    ELSE ItemsInIndexOrder(n - 1) \o ParsedItems(reply[n])

\* the result of a sequential run over the same replies
SequentialOutcome ==
    IF total_paragraphs > 0 /\ ItemsInIndexOrder(total_paragraphs) = <<>>
    THEN RaisedWith(AllFailed)
    ELSE ReturnedList(ItemsInIndexOrder(total_paragraphs))

NonDecreasing(evs) ==
    \A k \in 1..(Len(evs) - 1) : evs[k].progress <= evs[k + 1].progress

EmptyArray == Returned(<<"[", "]">>)
Last(seq) == seq[Len(seq)]

\* ------------------------------------------------------------------------
\* Properties
\* ------------------------------------------------------------------------

\* C1: when every segment's worker succeeds, the list correct() returns is
\* the concatenation of the segments' parsed items in ascending index order,
\* whatever the order in which the workers completed.
C1_ItemsInSegmentOrder ==
    (pc = "returned" /\ total_paragraphs > 0
        /\ \A i \in Indexes : WorkerSucceeded(i))
    => outcome.value = ItemsInIndexOrder(total_paragraphs)

\* a returned run of successful segments collected out of index order, two
\* of which contribute different items
C1_Witness ==
    /\ pc = "returned"
    /\ reordered
    /\ \A i \in Indexes : WorkerSucceeded(i)
    /\ \E i, j \in Indexes :
         /\ i < j
         /\ ParsedItems(reply[i]) # <<>>
         /\ ParsedItems(reply[j]) # <<>>
         /\ ParsedItems(reply[i]) # ParsedItems(reply[j])

C4_AllCallsFail ==
    /\ (Terminal /\ HasList /\ total_paragraphs > 0
          /\ \A i \in Indexes : reply[i].raised)
       => outcome = RaisedWith(AllFailed)
    /\ outcome.error = AllFailed
       => \A i \in Indexes : future[i] = "collected" /\ calls[i] = 1

\* two segments, two different failed calls, the all-failed error
C4_Witness ==
    /\ pc = "raised"
    /\ total_paragraphs = 2
    /\ \A i \in Indexes : reply[i].raised /\ calls[i] = 1
    /\ \E i, j \in Indexes : reply[i] # reply[j]
    /\ outcome.error = AllFailed

\* C5: when some segments fail and some succeed, correct() returns (does not
\* raise) exactly the items of the successful segments, in index order.
C5_PartialFailureReturns ==
    (Terminal /\ HasList
        /\ \E i \in Indexes : WorkerFailed(i)
        /\ \E j \in Indexes : WorkerSucceeded(j))
    => outcome = ReturnedList(ItemsInIndexOrder(total_paragraphs))

\* C6: an empty merged result with at least one segment that answered "[]"
\* is returned as the empty list, and the all-failed error is raised only
\* when every segment's outcome is a failure.
C6_EmptyResultIsValid ==
    /\ (Terminal /\ HasList /\ all_corrections = <<>>
          /\ \E i \in Indexes : reply[i] = EmptyArray)
       => outcome = ReturnedList(<<>>)
    /\ outcome.error = AllFailed
       => \A i \in Indexes : WorkerFailed(i)

\* C7: a segment whose reply is exactly "[]" gets "[]" as its outcome, not a
\* failure marker, and the merge takes it through the parsed branch adding
\* zero items (it is neither skipped nor a JSON error).
C7_EmptyArrayIsSuccess ==
    \A i \in Indexes :
        (Answered(i) /\ reply[i] = EmptyArray)
        => /\ future_result[i] = <<"[", "]">>
           /\ ~IsFailureMarker(future_result[i])
           /\ future[i] = "collected"
              => corrected_paragraphs[i] = Str(<<"[", "]">>)
           /\ i <= Len(merge_log)
              => merge_log[i] = [branch |-> "no_valid_items", added |-> 0]

\* a returned run in which a "[]" segment was merged
C7_Witness ==
    /\ pc = "returned"
    /\ \E i \in Indexes :
         /\ reply[i] = EmptyArray
         /\ merge_log[i].branch = "no_valid_items"

\* C8: whatever fails, once the merge starts every segment index has been
\* dispatched exactly once, its future has run to an outcome and has been
\* collected, and its slot holds the outcome of its own reply.
C8_NoSegmentSkipped ==
    (pc \in {"merge", "returned", "raised"} /\ HasList)
    => /\ Indexes = 1..total_paragraphs
       /\ \A i \in Indexes :
            /\ calls[i] = 1
            /\ future[i] = "collected"
            /\ reply[i] \in Replies
            /\ corrected_paragraphs[i] = Str(OutcomeOf[reply[i]])

\* a run in which the failed second segment was collected before the first,
\* and the first still delivered its items
C8_Witness ==
    /\ pc = "returned"
    /\ reordered
    /\ total_paragraphs = 2
    /\ reply[2].raised
    /\ WorkerSucceeded(1)
    /\ Len(outcome.value) >= 2

C10_ResultDeterminedByReplies ==
    (Terminal /\ HasList) => outcome = SequentialOutcome

\* a returned run of two segments on two workers, collected out of index
\* order, both contributing items
C10_Witness ==
    /\ pc = "returned"
    /\ reordered
    /\ max_workers = 2
    /\ total_paragraphs = 2
    /\ Len(outcome.value) >= 3

\* the value of the field key of the record v (the last member of that
\* name, as json.loads keeps it)
FieldValue(v, key) ==
    v.pairs[CHOOSE p \in 1..Len(v.pairs) :
              /\ v.pairs[p].k = <<key>>
              /\ \A q \in (p + 1)..Len(v.pairs) : v.pairs[q].k # <<key>>].v

\* a record with both fields, both strings, the original not empty
IsCorrectionItem(v) ==
    /\ IsRecordItem(v)
    /\ FieldValue(v, "theorigin").t = "str"
    /\ FieldValue(v, "corrected").t = "str"
    /\ FieldValue(v, "theorigin").s # <<>>

RECURSIVE SumTo(_, _)
SumTo(f, n) == IF n = 0 THEN 0 ELSE SumTo(f, n - 1) + f[n]

\* C11: every get_response invocation makes exactly one request and every
\* segment gets exactly one invocation, so a finished run over n segments
\* has issued exactly n requests, whether the calls succeeded or failed; a
\* run that got no paragraph list has issued none.
C11_OneRequestPerSegment ==
    /\ \A i \in Indexes : requests[i] = calls[i] /\ calls[i] <= 1
    /\ (Terminal /\ HasList)
       => /\ \A i \in Indexes : Answered(i) /\ requests[i] = 1
          /\ SumTo(requests, Len(requests)) = total_paragraphs
    /\ (Terminal /\ paragraphs.isNone) => requests = <<>>

\* a finished run of two segments, one call failed and one answered
C11_Witness ==
    /\ Terminal
    /\ total_paragraphs = 2
    /\ \E i, j \in Indexes : reply[i].raised /\ ~reply[j].raised
    /\ SumTo(requests, Len(requests)) = 2

\* C12: every item of the returned list is a record with both fields, both
\* strings, the original not empty.
C12_ItemsAreStringPairs ==
    pc = "returned"
    => \A k \in 1..Len(outcome.value) : IsCorrectionItem(outcome.value[k])

\* C13: a slot that holds an outcome is never written again, a slot changes
\* only from its initial None to the result of the future of its own index,
\* and once the run is over every index holds exactly one outcome.
C13_SlotsWriteOnce ==
    /\ []((Terminal /\ HasList)
           => /\ Len(corrected_paragraphs) = total_paragraphs
              /\ \A i \in Indexes : ~corrected_paragraphs[i].isNone)
    /\ [][\A i \in DOMAIN corrected_paragraphs :
            /\ ~corrected_paragraphs[i].isNone
               => corrected_paragraphs'[i] = corrected_paragraphs[i]
            /\ corrected_paragraphs'[i] # corrected_paragraphs[i]
               => /\ future[i] = "finished"
                  /\ future'[i] = "collected"
                  /\ corrected_paragraphs'[i] = Str(future_result[i])]_vars

\* the second slot holds its outcome while the first is still empty
C13_Witness ==
    /\ pc = "pool"
    /\ total_paragraphs = 2
    /\ corrected_paragraphs[1].isNone
    /\ ~corrected_paragraphs[2].isNone
    /\ future[1] = "finished"

\* p is x rounded to the nearest integer, x = num / den
IsRounded(p, num, den) ==
    /\ 2 * (p * den - num) <= den
    /\ 2 * (num - p * den) <= den

\* C14: with a callback and a task id set and n >= 1 segments, the k-th
\* event is pushed at the k-th completion with current = k, total = n and
\* progress = round(100 * k / n, 2); after every future has been collected
\* one final event follows with progress 100, estimated time 0 and
\* current = total = n: n + 1 events in all.
C14_ProgressEvents ==
    (HasList /\ SinkSet /\ total_paragraphs >= 1)
    => /\ pc = "pool" => Len(events) = completed_count
       /\ completed_count
            = Cardinality({i \in Indexes : future[i] = "collected"})
       /\ \A k \in 1..Len(events) :
            k <= total_paragraphs
            => /\ events[k].task_id = task_id
               /\ events[k].current = k
               /\ events[k].total = total_paragraphs
               /\ IsRounded(events[k].progress, 10000 * k, total_paragraphs)
       /\ Len(events) > total_paragraphs
            => \A i \in Indexes : future[i] = "collected"
       /\ pc \in {"merge", "returned", "raised"}
            => /\ Len(events) = total_paragraphs + 1
               /\ Last(events).task_id = task_id
               /\ Last(events).progress = 10000
               /\ Last(events).estimated_time = 0
               /\ Last(events).current = total_paragraphs
               /\ Last(events).total = total_paragraphs

\* a finished run of two segments collected out of index order, one of them
\* failed, whose first event estimated one second more and whose third event
\* is the final one
C14_Witness ==
    /\ Terminal
    /\ SinkSet
    /\ total_paragraphs = 2
    /\ reordered
    /\ \E i \in Indexes : WorkerFailed(i)
    /\ Len(events) = 3
    /\ events[1].estimated_time = 1
    /\ events[2].current = 2
    /\ events[3].estimated_time = 0

StrValue(chars) == [t |-> "str", s |-> chars]
Item(original, corrected) ==
    [t |-> "obj",
     pairs |-> <<[k |-> <<"theorigin">>, v |-> original],
                 [k |-> <<"corrected">>, v |-> corrected]>>]
ItemOf ==
    (RecA :> Item(StrValue(<<"a">>), StrValue(<<"b">>)))
    @@ (RecB :> Item(StrValue(<<"b">>), StrValue(<<"a">>)))
    @@ (RecClose :> Item(StrValue(<<"]">>), StrValue(<<"b">>)))
    @@ (RecOpen :> Item(StrValue(<<"[">>), StrValue(<<"b">>)))
    @@ (RecBoth :> Item(StrValue(<<"[", "]">>), StrValue(<<"b">>)))
    @@ (RecNotStrings :> Item([t |-> "num", s |-> <<"1">>], StrValue(<<>>)))
ItemsOf(recs) == [k \in 1..Len(recs) |-> ItemOf[recs[k]]]

\* the first element of cands that is in S
FirstIn(cands, S) ==
    cands[CHOOSE k \in 1..Len(cands) :
            cands[k] \in S /\ \A j \in 1..(k - 1) : cands[j] \notin S]

\* get_response returned text for segment i and the worker has finished
Parsed(i, text) == Answered(i) /\ reply[i] = Returned(text)
Merged1(i) == i <= Len(merge_log)

\* C16: a response that is one record object outside any array makes the
\* segment succeed and contributes that one item to the output.
C16_SingleObjectAccepted ==
    \A i \in Indexes :
        Parsed(i, RecA)
        => /\ ~IsFailureMarker(future_result[i])
           /\ (Terminal /\ total_paragraphs = 1)
              => outcome = ReturnedList(<<ItemOf[RecA]>>)

\* C17: from a response that is one well-formed non-empty array of complete
\* records inside prose without brackets the worker extracts exactly the
\* array, and the merge yields exactly its records, in their order.
C17_ArrayInProse ==
    \A recs \in RecordLists, before \in ProseBefore, after \in ProseAfter :
      \A i \in Indexes :
        Parsed(i, before \o ArrayOf(recs) \o after)
        => /\ future_result[i] = ArrayOf(recs)
           /\ Merged1(i)
              => merge_log[i] = [branch |-> "extended", added |-> Len(recs)]
           /\ (Terminal /\ total_paragraphs = 1)
              => outcome = ReturnedList(ItemsOf(recs))

\* three records in prose on both sides, returned in their order
C17_Witness ==
    /\ pc = "returned"
    /\ reply = <<Returned(<<"a", " ">> \o ArrayOf(<<RecB, RecA, RecB>>)
                          \o <<" ", "b">>)>>
    /\ outcome.value = <<ItemOf[RecB], ItemOf[RecA], ItemOf[RecB]>>

\* C18 as stated: the first candidate that parses as a sequence of records
\* each having both fields (the empty sequence is one) is the one accepted.
C18_FirstParsableAccepted ==
    \A cands \in CandidateLists :
      \A i \in Indexes :
        (/\ Parsed(i, JoinWith(cands, <<" ">>))
         /\ \E k \in 1..Len(cands) :
              cands[k] \in ValidCandidates \cup {<<"[", "]">>})
        => future_result[i]
             = FirstIn(cands, ValidCandidates \cup {<<"[", "]">>})

\* C18 amended: of several candidates the leftmost that parses as a
\* non-empty sequence of records each having both fields is the outcome;
\* the candidates after it are ignored, and the ones before it (empty, not
\* JSON, not records, a field missing) cause no failure.
C18_FirstValidAccepted ==
    \A cands \in CandidateLists :
      \A i \in Indexes :
        (/\ Parsed(i, JoinWith(cands, <<" ">>))
         /\ \E k \in 1..Len(cands) : cands[k] \in ValidCandidates)
        => /\ future_result[i] = FirstIn(cands, ValidCandidates)
           /\ Merged1(i)
              => merge_log[i] = [branch |-> "extended", added |-> 1]
           /\ (Terminal /\ total_paragraphs = 1)
              => /\ outcome.kind = "returned"
                 /\ Len(outcome.value) = 1
                 /\ ArrayOf(<<RecA>>) = FirstIn(cands, ValidCandidates)
                    => outcome.value = <<ItemOf[RecA]>>
                 /\ ArrayOf(<<RecB>>) = FirstIn(cands, ValidCandidates)
                    => outcome.value = <<ItemOf[RecB]>>

\* a candidate that is not JSON, then a valid one, then another valid one:
\* the run returns the item of the middle one
C18_Witness ==
    /\ pc = "returned"
    /\ reply = <<Returned(JoinWith(<<(<<"[", "a", "]">>), ArrayOf(<<RecB>>),
                                     ArrayOf(<<RecA>>)>>, <<" ">>))>>
    /\ outcome.value = <<ItemOf[RecB]>>

\* the non-greedy "[...]" candidates of text (the "{...}" ones when there
\* is none), and whether one of them is a non-empty array of records with
\* both fields
CandidatesOf(text) ==
    IF FindAll(text, "[", "]") # <<>> THEN FindAll(text, "[", "]")
    ELSE FindAll(text, "{", "}")
SomeCandidateValid(text) ==
    \E k \in 1..Len(CandidatesOf(text)) :
        IsValidJson(JsonLoads(CandidatesOf(text)[k]))
\* the text from the first "[" to the last "]" of text without its outer
\* whitespace, <<>> when there is no such pair
FirstToLast(text) ==
    LET open == {k \in 1..Len(Strip(text)) : Strip(text)[k] = "["}
        close == {k \in 1..Len(Strip(text)) : Strip(text)[k] = "]"}
        first == CHOOSE k \in open : \A j \in open : k <= j
        last == CHOOSE k \in close : \A j \in close : k >= j
    IN  IF open = {} \/ close = {} THEN <<>>
        ELSE IF first < last THEN SubSeq(Strip(text), first, last)
        ELSE <<>>

\* C19: when there are candidates and none is valid, the outcome is the
\* text from the first "[" to the last "]" if that text is JSON, and a
\* failure marker otherwise; an array of records whose strings hold "]" or
\* "[" comes out whole, with its records.
C19_SalvagePass ==
    /\ \A i \in Indexes :
         (/\ Answered(i)
          /\ ~reply[i].raised
          /\ CandidatesOf(reply[i].text) # <<>>
          /\ ~SomeCandidateValid(reply[i].text))
         => IF JsonLoads(FirstToLast(reply[i].text)).ok
            THEN /\ future_result[i] = FirstToLast(reply[i].text)
                 /\ Merged1(i)
                    => merge_log[i].branch \in {"extended", "no_valid_items"}
            ELSE /\ IsFailureMarker(future_result[i])
                 /\ Merged1(i)
                    => merge_log[i] = [branch |-> "skipped", added |-> 0]
    /\ \A recs \in {<<RecClose>>, <<RecBoth>>} :
       \A before \in ProseBefore, after \in ProseAfter :
         \A i \in Indexes :
           Parsed(i, before \o ArrayOf(recs) \o after)
           => /\ ~SomeCandidateValid(reply[i].text)
              /\ future_result[i] = ArrayOf(recs)
              /\ (Terminal /\ total_paragraphs = 1)
                 => outcome = ReturnedList(ItemsOf(recs))

\* an array of a record whose original is "]", in prose on both sides:
\* returned with that record
C19_Witness ==
    /\ pc = "returned"
    /\ reply = <<Returned(<<"a", " ">> \o ArrayOf(<<RecClose>>)
                          \o <<" ", "b">>)>>
    /\ outcome.value = <<ItemOf[RecClose]>>

\* no opening token of text has a closing one after it
NoPair(text, open, close) ==
    ~\E j, k \in 1..Len(text) : j < k /\ text[j] = open /\ text[k] = close

\* C20: a response without any "[...]" and any "{...}" makes the worker
\* fail with the no-JSON-data error; the segment's outcome is the failure
\* marker carrying it, and the merge skips it.
C20_NoBracketsFails ==
    \A i \in Indexes :
        (/\ Answered(i)
         /\ ~reply[i].raised
         /\ NoPair(reply[i].text, "[", "]")
         /\ NoPair(reply[i].text, "{", "}"))
        => /\ future_result[i]
                = ErrorPrefix \o <<"CHULI", "AI response failed: ", NoJsonFound>>
                  \o reply[i].text
           /\ future[i] = "collected"
              => corrected_paragraphs[i] = Str(future_result[i])
           /\ Merged1(i)
              => merge_log[i] = [branch |-> "skipped", added |-> 0]
           /\ (Terminal /\ total_paragraphs = 1)
              => outcome = RaisedWith(AllFailed)

\* a response of brackets that do not pair, merged as a skipped failure
C20_Witness ==
    /\ pc = "raised"
    /\ reply = <<Returned(<<"a", " ", "]", " ", "[">>)>>
    /\ merge_log = <<[branch |-> "skipped", added |-> 0]>>

\* the records of recs that have both fields, in the order of recs
IsComplete(rec) == rec \in DOMAIN ItemOf
CompleteOf(recs) == SelectSeq(recs, IsComplete)

\* C21: when the array of a response mixes records that have both fields
\* with records that miss the original or the correction, the segment is
\* no failure, the merge takes the branch that extends the result, and the
\* output holds exactly the complete records of the array, in their order.
C21_IncompleteRecordsDropped ==
    \A recs \in MixedLists, before \in ProseBefore, after \in ProseAfter :
      \A i \in Indexes :
        Parsed(i, before \o ArrayOf(recs) \o after)
        => /\ ~IsFailureMarker(future_result[i])
           /\ future_result[i] = ArrayOf(recs)
           /\ Merged1(i)
              => merge_log[i] = [branch |-> "extended",
                                 added |-> Len(CompleteOf(recs))]
           /\ (Terminal /\ total_paragraphs = 1)
              => outcome = ReturnedList(ItemsOf(CompleteOf(recs)))

\* a complete record, one without correction, a complete one, one without
\* original: the run returns the two complete ones in that order
C21_Witness ==
    /\ pc = "returned"
    /\ reply = <<Returned(<<"a", " ">>
                          \o ArrayOf(<<RecA, RecNoCorrected, RecB,
                                       RecNoOriginal>>)
                          \o <<" ", "b">>)>>
    /\ outcome.value = <<ItemOf[RecA], ItemOf[RecB]>>

\* process_paragraph left through "return idx, corrected_content" (line
\* 198) or through the handler of line 199
ReturnedNormally(r) == ~r.raised /\ ExtractJson(r.text).ok

\* C25: the merge classifies outcomes soundly: the outcome stored for a
\* worker that returned normally starts with "[" and is not skipped, and
\* the outcome stored for a worker that failed starts with the failure
\* prefix and is skipped, adding nothing.
C25_MergeClassifiesSoundly ==
    \A i \in Indexes :
        future[i] = "collected"
        => /\ ~corrected_paragraphs[i].isNone
           /\ ReturnedNormally(reply[i])
              => /\ StartsWith(corrected_paragraphs[i].text, "[")
                 /\ ~IsFailureMarker(corrected_paragraphs[i].text)
                 /\ Merged1(i) => merge_log[i].branch # "skipped"
           /\ ~ReturnedNormally(reply[i])
              => /\ SubSeq(corrected_paragraphs[i].text, 1, 2) = ErrorPrefix
                 /\ Merged1(i)
                    => merge_log[i] = [branch |-> "skipped", added |-> 0]

\* an array cut short behind its record: the failure, whose message quotes
\* the text, is skipped by the merge
C25_Witness ==
    /\ Merged1(1)
    /\ reply = <<Returned(<<"[">> \o RecA)>>
    /\ SubSeq(corrected_paragraphs[1].text, 1, 2) = ErrorPrefix
    /\ merge_log[1] = [branch |-> "skipped", added |-> 0]

\* C26: the final event, with progress 100, is emitted before the merge and
\* before correct() decides between returning and raising: from the start
\* of the merge on the sink holds it as the latest event, also in a run
\* that ends with the all-failed error, and no event is emitted during the
\* merge or after correct() has returned or raised.
C26_FinalEventBeforeMerge ==
    /\ [](SinkSet /\ pc \in {"merge", "returned", "raised"} /\ HasList
          => /\ Len(events) = total_paragraphs + 1
             /\ Last(events).progress = 10000
             /\ Last(events).current = total_paragraphs)
    /\ [](SinkSet /\ outcome = RaisedWith(AllFailed)
          => events # <<>> /\ Last(events).progress = 10000)
    /\ [][(pc \in {"merge", "returned", "raised"}) => events' = events]_vars

\* a run of two segments that ends with the all-failed error after the
\* sink got three events, the last with progress 100
C26_Witness ==
    /\ outcome = RaisedWith(AllFailed)
    /\ SinkSet
    /\ total_paragraphs = 2
    /\ Len(events) = 3
    /\ events[3].progress = 10000
    /\ merge_log = <<[branch |-> "skipped", added |-> 0],
                     [branch |-> "skipped", added |-> 0]>>

\* C28: without a callback, or with a task id that is None or empty,
\* correct() emits no event; the way it ends is the same with and without
\* a sink, the one that the replies alone determine; and every event
\* carries the task id correct() was called with.
C28_NoSinkNoEvents ==
    /\ ~SinkSet => events = <<>>
    /\ \A k \in 1..Len(events) : events[k].task_id = task_id
    /\ Terminal
       => outcome = IF HasList THEN SequentialOutcome
                    ELSE RaisedWith(DocumentFailed)

\* a run with a callback and the empty task id that returns items without
\* any event
C28_Witness ==
    /\ pc = "returned"
    /\ progress_callback
    /\ task_id = ""
    /\ total_paragraphs = 2
    /\ outcome.value # <<>>
    /\ events = <<>>

\* C27: when progress_callback raises, correct() ends with that exception:
\* it is raised only when every submitted worker has finished (each
\* segment was submitted and got its one call of get_response), there is
\* no merge and no result, and the event the callback raised on is the
\* last one emitted.
C27_CallbackExceptionPropagates ==
    /\ [](pc = "unwinding" => outcome = NoOutcome)
    /\ [](outcome = RaisedWith(CallbackFailed)
          => /\ pc = "raised"
             /\ \A i \in Indexes : Answered(i) /\ calls[i] = 1
             /\ merge_log = <<>>
             /\ all_corrections = <<>>
             /\ events # <<>>)
    /\ [][(pc \in {"unwinding", "raised"})
            => /\ events' = events
               /\ pc' \in {"unwinding", "raised"}
               /\ merge_log' = merge_log]_vars

\* the callback raised on the first of two segments while the second was
\* still queued; the second has run since and correct() has raised
C27_Witness ==
    /\ outcome = RaisedWith(CallbackFailed)
    /\ total_paragraphs = 2
    /\ max_workers = 1
    /\ Len(events) = 1
    /\ future = <<"collected", "finished">>
    /\ calls = <<1, 1>>

\* ------------------------------------------------------------------------
\* Properties of the segmenter (SegmenterSpec)
\* ------------------------------------------------------------------------
Combined == segmenter_pc # "loaded"
IsNonBlank(paragraph) == Strip(paragraph) # <<>>
NonBlank(paragraph_list) == SelectSeq(paragraph_list, IsNonBlank)

\* C22 as stated: no segment of combine_paragraphs is longer than the
\* budget, except a segment that is one single paragraph of the document
\* which is itself longer than the budget.
C22_SegmentsWithinBudget ==
    Combined
    => \A k \in 1..Len(combined_paragraphs) :
         \/ Len(combined_paragraphs[k]) <= MAX_CHARS_PER_PARAGRAPH
         \/ \E j \in 1..Len(document) :
              /\ document[j] = combined_paragraphs[k]
              /\ Len(document[j]) > MAX_CHARS_PER_PARAGRAPH

\* C23 as stated: process() raises on no paragraph list, and every segment
\* it returns is a non-empty string without leading or trailing whitespace.
C23_SegmentsNonEmptyTrimmed ==
    /\ segmenter_pc # "raised"
    /\ segmenter_pc = "returned"
       => \A k \in 1..Len(unique_paragraphs) :
            /\ unique_paragraphs[k] # <<>>
            /\ Strip(unique_paragraphs[k]) = unique_paragraphs[k]

\* seq is sub with elements put in between, in front or behind
IsSubsequence(sub, seq) ==
    \E at \in [1..Len(sub) -> 1..Len(seq)] :
        /\ \A k \in 1..Len(sub) : seq[at[k]] = sub[k]
        /\ \A j, k \in 1..Len(sub) : j < k => at[j] < at[k]

\* C24 as stated: after the duplicate filter no two returned segments are
\* in a substring relation, the survivors keep their input order, and of
\* two segments in a substring relation it is the shorter, contained one
\* that is dropped: the longer one is among the survivors.
C24_ShortDuplicateDropped ==
    segmenter_pc = "returned"
    => /\ \A j, k \in 1..Len(unique_paragraphs) :
            j # k => ~IsSubstring(unique_paragraphs[j], unique_paragraphs[k])
       /\ IsSubsequence(unique_paragraphs, cleaned_paragraphs)
       /\ \A j, k \in 1..Len(cleaned_paragraphs) :
            (/\ IsSubstring(cleaned_paragraphs[j], cleaned_paragraphs[k])
             /\ Len(cleaned_paragraphs[j]) < Len(cleaned_paragraphs[k])
             /\ \A i \in 1..Len(cleaned_paragraphs) :
                  i \notin {j, k}
                  => /\ ~IsSubstring(cleaned_paragraphs[i],
                                      cleaned_paragraphs[k])
                     /\ ~IsSubstring(cleaned_paragraphs[k],
                                      cleaned_paragraphs[i]))
            => \E u \in 1..Len(unique_paragraphs) :
                 unique_paragraphs[u] = cleaned_paragraphs[k]

\* the k-th smallest element of the set cuts, otherwise
KthCut(cuts, k, otherwise) ==
    IF k < 1 \/ k > Cardinality(cuts) THEN otherwise
    ELSE CHOOSE c \in cuts : Cardinality({d \in cuts : d < c}) = k - 1
\* paragraph_list cut behind the positions of cuts, each group joined with
\* single spaces
CutAndJoined(paragraph_list, cuts) ==
    [k \in 1..(Cardinality(cuts) + 1) |->
        JoinWith(SubSeq(paragraph_list,
                        KthCut(cuts, k - 1, 0) + 1,
                        KthCut(cuts, k, Len(paragraph_list))),
                 <<" ">>)]

\* C29: combine_paragraphs loses and reorders no text: the segments joined
\* with single spaces are the non-blank paragraphs of the document, in
\* their order, joined with single spaces, and the segments are these
\* paragraphs cut into consecutive non-empty groups, each paragraph in
\* exactly one group.
C29_CombineLosesNothing ==
    Combined
    => /\ JoinWith(combined_paragraphs, <<" ">>)
            = JoinWith(NonBlank(document), <<" ">>)
       /\ IF NonBlank(document) = <<>> THEN combined_paragraphs = <<>>
          ELSE \E cuts \in SUBSET (1..(Len(NonBlank(document)) - 1)) :
                 combined_paragraphs = CutAndJoined(NonBlank(document), cuts)

\* three paragraphs: two segments, the first of two paragraphs
C29_Witness ==
    /\ Combined
    /\ document = << <<"a", "b", ".">>, <<"a", "b", "c">>,
                     <<"a", "b", "c", "d", "e", ".">> >>
    /\ combined_paragraphs
         = << <<"a", "b", ".", " ", "a", "b", "c">>,
              <<"a", "b", "c", "d", "e", ".">> >>

\* ------------------------------------------------------------------------
\* Properties of the task life cycle (TaskSpec)
\* ------------------------------------------------------------------------
\* how often event occurs in the sequence evs
Count(evs, event) == Cardinality({k \in 1..Len(evs) : evs[k] = event})

=============================================================================
